---- MODULE Spec2Model ----
(***************************************************************************)
(* A model of the PDF editor front end: the top-level container            *)
(* (PDFEditor), its four tab panels (FileUpload, PDFViewer, PDFEditPanel,  *)
(* ExportPanel), the pdf API module and the requests in flight.            *)
(***************************************************************************)
EXTENDS Integers, Sequences, FiniteSets, TLC

VARIABLES
    pdfFile,        \* PDFEditor: useState<PDFFile | null>(null)
    activeTab,      \* PDFEditor: useState('upload')
    currentPage,    \* PDFEditor: useState(1)
    numPages,       \* PDFEditor: useState(0)
    isDeleting,     \* PDFEditor: useState(false)
    panel,          \* which FileUpload source is built in: "api" or "local"
    isUploading,    \* FileUpload: useState(false)
    viewer,         \* PDFViewer: its useState cells and the effect's last deps
    editPanel,      \* PDFEditPanel: its useState cells
    exportPanel,    \* ExportPanel: its useState cells
    net,            \* the requests in flight, each with its continuation's closure
    objectUrls,     \* object URLs created and not yet revoked
    urlCount,       \* number of URL.createObjectURL calls so far
    previewSent,    \* preview requests dispatched by the mounted PDFViewer, per fileId
    toast,          \* the notifications the last step showed, in order
    download,       \* the file name the last step made the browser download
    last,           \* the handler that ran last, with its arguments
    input,          \* argument of the pure function under check
    output          \* its result

\* The application's state proper.
appVars == <<pdfFile, activeTab, currentPage, numPages, isDeleting, panel,
             isUploading, viewer, editPanel, exportPanel, net, objectUrls,
             urlCount, previewSent>>

vars == <<pdfFile, activeTab, currentPage, numPages, isDeleting, panel,
          isUploading, viewer, editPanel, exportPanel, net, objectUrls,
          urlCount, previewSent, toast, download, last, input, output>>

----------------------------------------------------------------------------
(* JavaScript numbers.  A number is an IEEE-754 double; the model holds a  *)
(* non-negative double as its exact binary expansion, cut into limbs of    *)
(* LimbBits bits, least significant limb first: bit k (from 0) has weight  *)
(* 2^(k - FracBits).  Every double in [2^-7, 2^IntBits) is such an         *)
(* expansion with at most 53 significant bits.                             *)

\* Bits per limb.
LimbBits == 12
\* Limbs kept after the binary point.
FracLimbs == 5
\* Limbs kept before the binary point.
IntLimbs == 1

NL == FracLimbs + IntLimbs
FracBits == FracLimbs * LimbBits
Base == 2 ^ LimbBits

\* Bit k (from 0) of b.
Bit(b, k) == (b[(k \div LimbBits) + 1] \div (2 ^ (k % LimbBits))) % 2

\* Number of bits up to the leading 1 bit; 0 for zero.
BitLen(b) ==
    LET S == {j \in 1..NL : b[j] # 0}
    IN  IF S = {} THEN 0
        ELSE LET top == CHOOSE j \in S : \A i \in S : i <= j
             IN  (top - 1) * LimbBits
                 + (CHOOSE k \in 1..LimbBits : 2 ^ (k - 1) <= b[top] /\ b[top] < 2 ^ k)

RECURSIVE IntFrom(_, _)
IntFrom(n, j) ==
    IF j > NL THEN <<>>
    ELSE <<IF j <= FracLimbs THEN 0 ELSE (n \div (Base ^ (j - 1 - FracLimbs))) % Base>>
         \o IntFrom(n, j + 1)

\* The natural number n (n < Base^IntLimbs) as a number.
IntToBits(n) == IntFrom(n, 1)

RECURSIVE PowerFrom(_, _)
PowerFrom(k, j) ==
    IF j > NL THEN <<>>
    ELSE <<IF (k \div LimbBits) + 1 = j THEN 2 ^ (k % LimbBits) ELSE 0>>
         \o PowerFrom(k, j + 1)

\* The number whose only 1 bit is bit k.
PowerBit(k) == PowerFrom(k, 1)

RECURSIVE AddFrom(_, _, _, _)
AddFrom(a, b, j, c) ==
    IF j > NL THEN <<>>
    ELSE <<(a[j] + b[j] + c) % Base>>
         \o AddFrom(a, b, j + 1, (a[j] + b[j] + c) \div Base)

\* Exact sum.
ExactAdd(a, b) == AddFrom(a, b, 1, 0)

RECURSIVE SubFrom(_, _, _, _)
SubFrom(a, b, j, c) ==
    IF j > NL THEN <<>>
    ELSE <<(a[j] - b[j] - c + Base) % Base>>
         \o SubFrom(a, b, j + 1, IF a[j] - b[j] - c < 0 THEN 1 ELSE 0)

\* Exact difference a - b, for a >= b.
ExactSub(a, b) == SubFrom(a, b, 1, 0)

RECURSIVE MulFrom(_, _, _, _)
MulFrom(n, b, j, c) ==
    IF j > NL THEN <<>>
    ELSE <<(n * b[j] + c) % Base>> \o MulFrom(n, b, j + 1, (n * b[j] + c) \div Base)

\* Exact product of a small natural n and b.
ExactMulInt(n, b) == MulFrom(n, b, 1, 0)

RECURSIVE LessFrom(_, _, _)
LessFrom(a, b, j) ==
    IF j = 0 THEN FALSE
    ELSE IF a[j] # b[j] THEN a[j] < b[j]
    ELSE LessFrom(a, b, j - 1)

\* a < b
Less(a, b) == LessFrom(a, b, NL)

\* a <= b
LessEq(a, b) == ~Less(b, a)

\* b with its d lowest bits cleared.
RECURSIVE TruncFrom(_, _, _)
TruncFrom(b, d, j) ==
    IF j > NL THEN <<>>
    ELSE <<IF j * LimbBits <= d THEN 0
           ELSE IF (j - 1) * LimbBits >= d THEN b[j]
           ELSE (b[j] \div (2 ^ (d % LimbBits))) * (2 ^ (d % LimbBits))>>
         \o TruncFrom(b, d, j + 1)

\* IEEE-754 round to nearest, ties to even, to 53 significant bits.  sticky
\* says that the exact value lies strictly above b (by less than one unit).
RoundDouble(b, sticky) ==
    LET d == BitLen(b) - 53
    IN  IF d <= 0 THEN b
        ELSE LET trunc == TruncFrom(b, d, 1)
                 rest == sticky \/ \E k \in 0..(d - 2) : Bit(b, k) = 1
                 up == Bit(b, d - 1) = 1 /\ (rest \/ Bit(b, d) = 1)
             IN  IF up THEN ExactAdd(trunc, PowerBit(d)) ELSE trunc

\* Remainder of the limbs NL..j of b on division by den.
RECURSIVE RemFrom(_, _, _)
RemFrom(b, den, j) ==
    IF j > NL THEN 0 ELSE (b[j] + Base * RemFrom(b, den, j + 1)) % den

\* Long division of b by a small den: the quotient's limbs j..NL.
RECURSIVE DivFrom(_, _, _)
DivFrom(b, den, j) ==
    IF j > NL THEN <<>>
    ELSE <<(b[j] + Base * RemFrom(b, den, j + 1)) \div den>> \o DivFrom(b, den, j + 1)

\* The double a decimal literal num/den denotes (1.2 is Literal(12, 10)).
Literal(num, den) ==
    LET n == IntToBits(num)
    IN  RoundDouble(DivFrom(n, den, 1), RemFrom(n, den, 1) # 0)

\* JavaScript a + b, a - b (for a >= b) and n * b (n a small natural).
NumAdd(a, b) == RoundDouble(ExactAdd(a, b), FALSE)
NumSub(a, b) == RoundDouble(ExactSub(a, b), FALSE)
NumMulInt(n, b) == RoundDouble(ExactMulInt(n, b), FALSE)

\* Math.min and Math.max.
NumMin(a, b) == IF Less(b, a) THEN b ELSE a
NumMax(a, b) == IF Less(a, b) THEN b ELSE a

----------------------------------------------------------------------------
(* JavaScript values.                                                      *)

Undefined == "undefined"
Null == "null"

\* What an if, a !, a || and a && take for true, of a string-valued cell.
Truthy(v) == v \notin {Undefined, Null, ""}

\* a || b
OrElse(a, b) == IF Truthy(a) THEN a ELSE b

\* Texts are sequences of characters.
IsSpace(c) == c \in {" ", "\t", "\n"}

RECURSIVE TrimStart(_)
TrimStart(t) ==
    IF t = <<>> THEN <<>> ELSE IF IsSpace(Head(t)) THEN TrimStart(Tail(t)) ELSE t

RECURSIVE TrimEnd(_)
TrimEnd(t) ==
    IF t = <<>> THEN <<>>
    ELSE IF IsSpace(t[Len(t)]) THEN TrimEnd(SubSeq(t, 1, Len(t) - 1)) ELSE t

\* The mutant of Trim: the text as it is.
TrimNone(t) == t

\* String.prototype.trim
Trim(t) == TrimEnd(TrimStart(t))

----------------------------------------------------------------------------
(* src/api/pdf.ts                                                          *)

PdfMime == "application/pdf"
MB == 1024 * 1024

\* const maxSize = 10 * 1024 * 1024
maxSize == 10 * 1024 * 1024

\* The 50 * 1024 * 1024 of src/components/pdf/FileUpload.tsx.
localMaxSize == 50 * 1024 * 1024

File(name, type, size) == [name |-> name, type |-> type, size |-> size]

\* acceptedFiles[0] of an empty drop.
NoFile == File(Undefined, Undefined, 0)

Sample == File("sample.pdf", PdfMime, 2 * MB)

\* The files a user can drop: PDFs below and above each ceiling, and a
\* file of another type.
Files ==
    { Sample,
      File("large.pdf", PdfMime, maxSize + 1),
      File("huge.pdf", PdfMime, localMaxSize + 1),
      File("notes.pdf", "text/plain", 1024) }

\* The mutant of validateFile: the size is checked before the type.
validateFileSizeFirst(file) ==
    IF file = NoFile THEN [isValid |-> FALSE, error |-> "No file selected"]
    ELSE IF file.size > maxSize
    THEN [isValid |-> FALSE, error |-> "File size must be less than 10MB"]
    ELSE IF file.type # PdfMime
    THEN [isValid |-> FALSE, error |-> "Please select a PDF file"]
    ELSE [isValid |-> TRUE, error |-> Undefined]

\* The mutant of validateFile: no type check.
validateFileNoType(file) ==
    IF file = NoFile THEN [isValid |-> FALSE, error |-> "No file selected"]
    ELSE IF file.size > maxSize
    THEN [isValid |-> FALSE, error |-> "File size must be less than 10MB"]
    ELSE [isValid |-> TRUE, error |-> Undefined]

\* pdfUtils.validateFile
validateFile(file) ==
    IF file = NoFile THEN [isValid |-> FALSE, error |-> "No file selected"]
    ELSE IF file.type # PdfMime
    THEN [isValid |-> FALSE, error |-> "Please select a PDF file"]
    ELSE IF file.size > maxSize
    THEN [isValid |-> FALSE, error |-> "File size must be less than 10MB"]
    ELSE [isValid |-> TRUE, error |-> Undefined]

\* A rejected request's error object, as axios builds it: response is
\* absent (present = FALSE) or carries data (absent or with a message),
\* status and statusText; request is truthy or not; message is the
\* Error's own message.
ApiError(hasResponse, hasData, dataMessage, status, statusText, hasRequest, message) ==
    [response |-> [present |-> hasResponse,
                   data |-> [present |-> hasData, message |-> dataMessage],
                   status |-> status,
                   statusText |-> statusText],
     request |-> hasRequest,
     message |-> message]

\* The mutant of handleApiError: the request is looked at before the response.
handleApiErrorRequestFirst(error) ==
    IF error.request
    THEN [message |-> "Network error - please check your connection",
          status |-> 0,
          statusText |-> "No Response"]
    ELSE IF error.response.present
    THEN [message |-> OrElse(IF error.response.data.present
                             THEN error.response.data.message ELSE Undefined,
                             "An error occurred"),
          status |-> error.response.status,
          statusText |-> error.response.statusText]
    ELSE [message |-> OrElse(error.message, "An unexpected error occurred"),
          status |-> 0,
          statusText |-> "Unknown Error"]

\* handleApiError
handleApiError(error) ==
    IF error.response.present
    THEN [message |-> OrElse(IF error.response.data.present
                             THEN error.response.data.message ELSE Undefined,
                             "An error occurred"),
          status |-> error.response.status,
          statusText |-> error.response.statusText]
    ELSE IF error.request
    THEN [message |-> "Network error - please check your connection",
          status |-> 0,
          statusText |-> "No Response"]
    ELSE [message |-> OrElse(error.message, "An unexpected error occurred"),
          status |-> 0,
          statusText |-> "Unknown Error"]

----------------------------------------------------------------------------
(* The file handle and the panels' state cells.                            *)

\* The object {}.
EmptyObject == [k \in {} |-> Undefined]

\* { ...a, ...b }
Spread(a, b) == b @@ a

\* pdfFile = null
NoHandle == EmptyObject

\* pdfFile?.fileId
FileIdOf(file) == IF file = NoHandle THEN Undefined ELSE file.fileId

NoEdits == [textOverlays |-> <<>>, textReplacements |-> <<>>]

\* The identifiers the backend hands out.
FileIds == {"abc123", "def456"}

\* The previewUrl values of a preview response.
PreviewUrls == {"", "/preview/abc123.pdf"}

\* The rejections the requests of the application end with: a server error
\* with a message, and no response within the timeout.
Failures ==
    { ApiError(TRUE, TRUE, "File not found", 404, "Not Found", TRUE, "Request failed"),
      ApiError(FALSE, FALSE, Undefined, 0, Undefined, TRUE, "timeout of 30000ms exceeded") }

Tabs == {"upload", "preview", "edit", "export"}

\* The defaults of the two entry forms of PDFEditPanel.
DefaultOverlay ==
    [page |-> 1, x |-> 100, y |-> 100, text |-> <<>>, fontSize |-> 12, color |-> "#000000"]

DefaultReplacement == [page |-> 1, original |-> <<>>, replacement |-> <<>>]

One == IntToBits(1)

\* The dependency array of an effect that has not run.
NoDeps == <<Null, Null>>

\* PDFViewer's cells at mount.
InitViewer ==
    [scale |-> One, rotation |-> 0, loading |-> TRUE, previewUrl |-> Null,
     isLoadingPreview |-> FALSE, deps |-> NoDeps]

\* PDFEditPanel's cells at mount: useState(file.metadata || {}).
InitEdit(file) ==
    [metadata |-> IF file = NoHandle THEN EmptyObject ELSE file.metadata,
     isSaving |-> FALSE,
     newOverlay |-> DefaultOverlay,
     newReplacement |-> DefaultReplacement]

\* ExportPanel's cells at mount.
InitExport ==
    [selectedFormat |-> "pdf", isExporting |-> FALSE, exportProgress |-> 0,
     exportComplete |-> FALSE]

NoneSent == [f \in FileIds |-> 0]

Toast(title, description, variant) ==
    [title |-> title, description |-> description, variant |-> variant]

\* No download: link.click() was not called.
NoDownload == [file |-> Undefined, extension |-> Undefined]

\* Whether panel p is rendered: a TabsContent renders its children only
\* while its tab is the active one, and the three file panels are rendered
\* only under {pdfFile && ...}.  The container itself ("app") always is.
IsMounted(p, tab, file) ==
    IF p = "app" THEN TRUE
    ELSE IF p = "upload" THEN tab = "upload"
    ELSE tab = p /\ file # NoHandle

\* Number of requests in flight at most.
MaxInFlight == 2
\* Number of file handles created at most.
MaxUploads == 2

\* A number for a new request of a kind, to tell it from the others.
FreshN(kind, n0) ==
    CHOOSE k \in 1..(Cardinality(n0) + 1) :
        /\ \A r \in n0 : r.kind = kind => r.n # k
        /\ \A j \in 1..(k - 1) : \E r \in n0 : r.kind = kind /\ r.n = j

\* The mutant of ShouldFetch: the effect does not look at file.fileId.
ShouldFetchAnyFile(fileId, previewUrl) == ~Truthy(previewUrl)

\* The effect's condition: if (file.fileId && !previewUrl)
ShouldFetch(fileId, previewUrl) == Truthy(fileId) /\ ~Truthy(previewUrl)

PreviewRequest(fileId, n0) ==
    [kind |-> "preview", n |-> FreshN("preview", n0), owner |-> "preview",
     live |-> TRUE, fileId |-> fileId]

\* The render that follows a handler, and the effects after it.  tab2 and
\* file2 are the container's new activeTab and pdfFile; up, vw, ed and ex
\* the panels' cells as the handler left them; n0 the requests in flight.
\* A panel that stays mounted keeps its cells, one that is mounted anew
\* starts from its initial cells, and the setters of one that was unmounted
\* do nothing any more (its requests are no longer live).  PDFViewer's
\* effect runs after its first render and whenever file.fileId or
\* previewUrl has changed: if (file.fileId && !previewUrl) it sets
\* isLoadingPreview and dispatches pdfApi.preview(file.fileId).
Commit(tab2, file2, up, vw, ed, ex, n0) ==
    LET stays(p) == IsMounted(p, activeTab, pdfFile) /\ IsMounted(p, tab2, file2)
        vw1 == IF stays("preview") THEN vw ELSE InitViewer
        deps2 == <<FileIdOf(file2), vw1.previewUrl>>
        runs == IsMounted("preview", tab2, file2) /\ vw1.deps # deps2
        fetch == runs /\ ShouldFetch(FileIdOf(file2), vw1.previewUrl)
        vw2 == IF runs
               THEN [vw1 EXCEPT !.deps = deps2,
                                !.isLoadingPreview = IF fetch THEN TRUE ELSE @]
               ELSE vw1
        n1 == {[r EXCEPT !.live = r.live /\ stays(r.owner)] : r \in n0}
        sent1 == IF stays("preview") THEN previewSent ELSE NoneSent
    IN  /\ activeTab' = tab2
        /\ pdfFile' = file2
        /\ isUploading' = IF stays("upload") THEN up ELSE FALSE
        /\ viewer' = vw2
        /\ editPanel' = IF stays("edit") THEN ed
                        ELSE IF IsMounted("edit", tab2, file2) THEN InitEdit(file2)
                        ELSE InitEdit(NoHandle)
        /\ exportPanel' = IF stays("export") THEN ex ELSE InitExport
        /\ net' = IF fetch THEN n1 \cup {PreviewRequest(FileIdOf(file2), n1)} ELSE n1
        /\ previewSent' = IF fetch /\ FileIdOf(file2) \in FileIds
                          THEN [sent1 EXCEPT ![file2.fileId] = @ + 1]
                          ELSE sent1

\* A handler that leaves the container's activeTab and pdfFile alone.
CommitPanels(up, vw, ed, ex, n0) == Commit(activeTab, pdfFile, up, vw, ed, ex, n0)

----------------------------------------------------------------------------
(* PDFEditor: the container's handlers.                                    *)

\* The mutant of handleFileUpload: the new handle inherits the old edits.
handleFileUploadKeepEdits(file, fileId) ==
    [file |-> file, url |-> urlCount + 1, fileId |-> fileId,
     metadata |-> IF pdfFile = NoHandle THEN EmptyObject ELSE pdfFile.metadata,
     edits |-> IF pdfFile = NoHandle THEN NoEdits ELSE pdfFile.edits]

\* handleFileUpload: the handle it stores; url is the object URL that
\* URL.createObjectURL(file) returns, the next one never handed out before.
handleFileUpload(file, fileId) ==
    [file |-> file, url |-> urlCount + 1, fileId |-> fileId,
     metadata |-> EmptyObject,
     edits |-> NoEdits]

\* The mutant of handleMetadataUpdate: the edits are reset with it.
handleMetadataUpdateDropsEdits(metadata) ==
    IF pdfFile # NoHandle
    THEN [pdfFile EXCEPT !.metadata = Spread(pdfFile.metadata, metadata),
                         !.edits = NoEdits]
    ELSE pdfFile

\* handleMetadataUpdate
handleMetadataUpdate(metadata) ==
    IF pdfFile # NoHandle
    THEN [pdfFile EXCEPT !.metadata = Spread(pdfFile.metadata, metadata)]
    ELSE pdfFile

\* handleEditsUpdate
handleEditsUpdate(edits) ==
    IF pdfFile # NoHandle
    THEN [pdfFile EXCEPT !.edits = Spread(pdfFile.edits, edits)]
    ELSE pdfFile

\* The mutant of SelectTab: no trigger is ever disabled.
SelectTabEnabled(t) ==
    /\ t # activeTab
    /\ (t = "preview" /\ Truthy(FileIdOf(pdfFile))) => Cardinality(net) < MaxInFlight
    /\ Commit(t, pdfFile, isUploading, viewer, editPanel, exportPanel, net)
    /\ toast' = <<>>
    /\ download' = NoDownload
    /\ last' = [op |-> "setActiveTab", tab |-> t]
    /\ UNCHANGED <<currentPage, numPages, isDeleting, panel, objectUrls, urlCount,
                   input, output>>

\* Tabs onValueChange={setActiveTab}: a trigger other than Upload is
\* disabled while there is no file.
SelectTab(t) ==
    /\ t # activeTab
    /\ t = "upload" \/ pdfFile # NoHandle
    /\ (t = "preview" /\ Truthy(FileIdOf(pdfFile))) => Cardinality(net) < MaxInFlight
    /\ Commit(t, pdfFile, isUploading, viewer, editPanel, exportPanel, net)
    /\ toast' = <<>>
    /\ download' = NoDownload
    /\ last' = [op |-> "setActiveTab", tab |-> t]
    /\ UNCHANGED <<currentPage, numPages, isDeleting, panel, objectUrls, urlCount,
                   input, output>>

\* handleDeleteFile, up to the await: the Delete File button is rendered
\* while there is a file and disabled while isDeleting.
HandleDeleteFile ==
    /\ pdfFile # NoHandle
    /\ ~isDeleting
    /\ IF ~Truthy(FileIdOf(pdfFile))
       THEN /\ toast' = <<Toast("No file to delete", "No file is currently loaded.",
                                "destructive")>>
            /\ UNCHANGED appVars
       ELSE /\ Cardinality(net) < MaxInFlight
            /\ isDeleting' = TRUE
            /\ net' = net \cup {[kind |-> "delete", n |-> FreshN("delete", net),
                                 owner |-> "app", live |-> TRUE,
                                 fileId |-> pdfFile.fileId, url |-> pdfFile.url]}
            /\ toast' = <<>>
            /\ UNCHANGED <<pdfFile, activeTab, currentPage, numPages, panel,
                           isUploading, viewer, editPanel, exportPanel, objectUrls,
                           urlCount, previewSent>>
    /\ download' = NoDownload
    /\ last' = [op |-> "handleDeleteFile", fileId |-> FileIdOf(pdfFile)]
    /\ UNCHANGED <<input, output>>

\* The mutant of DeleteOk: the page cells are left as they are.
DeleteOkKeepsPage(r) ==
    /\ r \in net
    /\ r.kind = "delete"
    /\ objectUrls' = objectUrls \ {r.url}
    /\ Commit("upload", NoHandle, isUploading, viewer, editPanel, exportPanel,
              net \ {r})
    /\ isDeleting' = FALSE
    /\ toast' = <<Toast("File deleted successfully",
                        "The PDF file has been removed from the server.", "default")>>
    /\ download' = NoDownload
    /\ last' = [op |-> "deleteResolved", fileId |-> r.fileId]
    /\ UNCHANGED <<currentPage, numPages, panel, urlCount, input, output>>

\* handleDeleteFile after pdfApi.delete resolved: the URL of the handle
\* the handler was called with is revoked and the container is reset.
DeleteOk(r) ==
    /\ r \in net
    /\ r.kind = "delete"
    /\ objectUrls' = objectUrls \ {r.url}
    /\ Commit("upload", NoHandle, isUploading, viewer, editPanel, exportPanel,
              net \ {r})
    /\ currentPage' = 1
    /\ numPages' = 0
    /\ isDeleting' = FALSE
    /\ toast' = <<Toast("File deleted successfully",
                        "The PDF file has been removed from the server.", "default")>>
    /\ download' = NoDownload
    /\ last' = [op |-> "deleteResolved", fileId |-> r.fileId]
    /\ UNCHANGED <<panel, urlCount, input, output>>

\* The mutant of DeleteFail: no finally block, isDeleting is left as it is.
DeleteFailNoFinally(r, error) ==
    /\ r \in net
    /\ r.kind = "delete"
    /\ CommitPanels(isUploading, viewer, editPanel, exportPanel, net \ {r})
    /\ toast' = <<Toast("Delete failed", handleApiError(error).message, "destructive")>>
    /\ download' = NoDownload
    /\ last' = [op |-> "deleteRejected", fileId |-> r.fileId]
    /\ UNCHANGED <<currentPage, numPages, isDeleting, panel, objectUrls, urlCount,
                   input, output>>

\* handleDeleteFile after pdfApi.delete rejected.
DeleteFail(r, error) ==
    /\ r \in net
    /\ r.kind = "delete"
    /\ CommitPanels(isUploading, viewer, editPanel, exportPanel, net \ {r})
    /\ isDeleting' = FALSE
    /\ toast' = <<Toast("Delete failed", handleApiError(error).message, "destructive")>>
    /\ download' = NoDownload
    /\ last' = [op |-> "deleteRejected", fileId |-> r.fileId]
    /\ UNCHANGED <<currentPage, numPages, panel, objectUrls, urlCount, input, output>>

----------------------------------------------------------------------------
(* FileUpload: the upload panel, in its two sources.                       *)

Accepted(acceptedFiles) ==
    IF acceptedFiles = <<>> THEN NoFile ELSE acceptedFiles[1]

\* What can be handed to onDrop: no file, or one (multiple: false).
Drops == {<<>>} \cup {<<f>> : f \in Files}

\* onDrop of the panel that uploads (unnamed/part_000), up to the await;
\* the dropzone is disabled while isUploading.
OnDrop(acceptedFiles) ==
    LET file == Accepted(acceptedFiles)
        validation == validateFile(file)
    IN  /\ panel = "api"
        /\ activeTab = "upload"
        /\ ~isUploading
        /\ IF file = NoFile
           THEN /\ toast' = <<>>
                /\ UNCHANGED appVars
           ELSE IF ~validation.isValid
           THEN /\ toast' = <<Toast("Invalid file", validation.error, "destructive")>>
                /\ UNCHANGED appVars
           ELSE /\ Cardinality(net) < MaxInFlight
                /\ urlCount + Cardinality({r \in net : r.kind = "upload"}) < MaxUploads
                /\ CommitPanels(TRUE, viewer, editPanel, exportPanel,
                                net \cup {[kind |-> "upload",
                                           n |-> FreshN("upload", net),
                                           owner |-> "upload", live |-> TRUE,
                                           file |-> file]})
                /\ toast' = <<>>
                /\ UNCHANGED <<currentPage, numPages, isDeleting, panel, objectUrls,
                               urlCount>>
        /\ download' = NoDownload
        /\ last' = [op |-> "onDrop", file |-> file]
        /\ UNCHANGED <<input, output>>

\* onDrop after pdfApi.upload resolved with fileId: onFileUpload(file,
\* uploadResult.fileId), the toast, and setIsUploading(false).
UploadOk(r, fileId) ==
    /\ r \in net
    /\ r.kind = "upload"
    /\ Commit("preview", handleFileUpload(r.file, fileId), FALSE, viewer, editPanel,
              exportPanel, net \ {r})
    /\ objectUrls' = objectUrls \cup {urlCount + 1}
    /\ urlCount' = urlCount + 1
    /\ toast' = <<Toast("File uploaded successfully", r.file.name, "default")>>
    /\ download' = NoDownload
    /\ last' = [op |-> "uploadResolved", file |-> r.file, fileId |-> fileId]
    /\ UNCHANGED <<currentPage, numPages, isDeleting, panel, input, output>>

\* The mutant of UploadFail: the container's handle is dropped.
UploadFailDropsHandle(r, error) ==
    /\ r \in net
    /\ r.kind = "upload"
    /\ Commit("upload", NoHandle, IF r.live THEN FALSE ELSE isUploading, viewer,
              editPanel, exportPanel, net \ {r})
    /\ toast' = <<Toast("Upload failed", handleApiError(error).message, "destructive")>>
    /\ download' = NoDownload
    /\ last' = [op |-> "uploadRejected", file |-> r.file]
    /\ UNCHANGED <<currentPage, numPages, isDeleting, panel, objectUrls, urlCount,
                   input, output>>

\* onDrop after pdfApi.upload rejected.
UploadFail(r, error) ==
    /\ r \in net
    /\ r.kind = "upload"
    /\ CommitPanels(IF r.live THEN FALSE ELSE isUploading, viewer, editPanel,
                    exportPanel, net \ {r})
    /\ toast' = <<Toast("Upload failed", handleApiError(error).message, "destructive")>>
    /\ download' = NoDownload
    /\ last' = [op |-> "uploadRejected", file |-> r.file]
    /\ UNCHANGED <<currentPage, numPages, isDeleting, panel, objectUrls, urlCount,
                   input, output>>

\* onDrop of the panel that only hands the file over
\* (components/pdf/FileUpload.tsx): onFileUpload(file), no request.
OnDropLocal(acceptedFiles) ==
    LET file == Accepted(acceptedFiles)
    IN  /\ panel = "local"
        /\ activeTab = "upload"
        /\ IF file = NoFile
           THEN /\ toast' = <<>>
                /\ UNCHANGED appVars
           ELSE IF file.type # PdfMime
           THEN /\ toast' = <<Toast("Invalid file type",
                                    "Please upload a PDF file only.", "destructive")>>
                /\ UNCHANGED appVars
           ELSE IF file.size > localMaxSize
           THEN /\ toast' = <<Toast("File too large",
                                    "Please upload a PDF file smaller than 50MB.",
                                    "destructive")>>
                /\ UNCHANGED appVars
           ELSE /\ urlCount < MaxUploads
                /\ Commit("preview", handleFileUpload(file, Undefined), isUploading,
                          viewer, editPanel, exportPanel, net)
                /\ objectUrls' = objectUrls \cup {urlCount + 1}
                /\ urlCount' = urlCount + 1
                /\ toast' = <<Toast("File uploaded successfully", file.name, "default")>>
                /\ UNCHANGED <<currentPage, numPages, isDeleting, panel>>
        /\ download' = NoDownload
        /\ last' = [op |-> "onDropLocal", file |-> file]
        /\ UNCHANGED <<input, output>>

----------------------------------------------------------------------------
(* PDFViewer: the preview panel.                                           *)

\* The file prop of the rendering library's Document: previewUrl || file.url.
documentFile(vw, file) == OrElse(vw.previewUrl, file.url)

\* The Document is rendered when the panel is mounted and no preview
\* request of this mount is pending.
DocumentShown ==
    IsMounted("preview", activeTab, pdfFile) /\ ~viewer.isLoadingPreview

\* The effect's continuation after pdfApi.preview resolved:
\* setPreviewUrl(previewResult.previewUrl) and setIsLoadingPreview(false),
\* rendered together; the effect runs again if previewUrl has changed.
PreviewOk(r, previewUrl) ==
    /\ r \in net
    /\ r.kind = "preview"
    /\ CommitPanels(isUploading,
                    IF r.live
                    THEN [viewer EXCEPT !.previewUrl = previewUrl,
                                        !.isLoadingPreview = FALSE]
                    ELSE viewer,
                    editPanel, exportPanel, net \ {r})
    /\ toast' = <<>>
    /\ download' = NoDownload
    /\ last' = [op |-> "previewResolved", fileId |-> r.fileId, previewUrl |-> previewUrl]
    /\ UNCHANGED <<currentPage, numPages, isDeleting, panel, objectUrls, urlCount,
                   input, output>>

\* The effect's continuation after pdfApi.preview rejected.
PreviewFail(r, error) ==
    /\ r \in net
    /\ r.kind = "preview"
    /\ CommitPanels(isUploading,
                    IF r.live THEN [viewer EXCEPT !.isLoadingPreview = FALSE] ELSE viewer,
                    editPanel, exportPanel, net \ {r})
    /\ toast' = <<Toast("Preview failed", handleApiError(error).message, "destructive")>>
    /\ download' = NoDownload
    /\ last' = [op |-> "previewRejected", fileId |-> r.fileId]
    /\ UNCHANGED <<currentPage, numPages, isDeleting, panel, objectUrls, urlCount,
                   input, output>>

\* A handler of the viewer's toolbar: it changes the viewer's cells and
\* the container's page cells only.
ViewerStep(vw, page, pages, shown, op) ==
    /\ IsMounted("preview", activeTab, pdfFile)
    /\ viewer' = vw
    /\ currentPage' = page
    /\ numPages' = pages
    /\ toast' = shown
    /\ download' = NoDownload
    /\ last' = op
    /\ UNCHANGED <<pdfFile, activeTab, isDeleting, panel, isUploading, editPanel,
                   exportPanel, net, objectUrls, urlCount, previewSent, input, output>>

ZoomStep == Literal(2, 10)
MaxScale == IntToBits(3)
MinScale == Literal(5, 10)

\* The mutant of zoomIn: the step without the upper clamp.
zoomInUnclamped(prev) == NumAdd(prev, ZoomStep)

\* zoomIn's updater: Math.min(prev + 0.2, 3.0)
zoomIn(prev) == NumMin(NumAdd(prev, ZoomStep), MaxScale)

\* The mutant of zoomOut: the step without the lower clamp.
zoomOutUnclamped(prev) == NumSub(prev, ZoomStep)

\* zoomOut's updater: Math.max(prev - 0.2, 0.5)
zoomOut(prev) == NumMax(NumSub(prev, ZoomStep), MinScale)

\* The Zoom In button: disabled={scale >= 3.0}
ZoomIn ==
    /\ ~LessEq(MaxScale, viewer.scale)
    /\ ViewerStep([viewer EXCEPT !.scale = zoomIn(@)], currentPage, numPages, <<>>,
                  [op |-> "zoomIn", prev |-> viewer.scale])

\* The Zoom Out button: disabled={scale <= 0.5}
ZoomOut ==
    /\ ~LessEq(viewer.scale, MinScale)
    /\ ViewerStep([viewer EXCEPT !.scale = zoomOut(@)], currentPage, numPages, <<>>,
                  [op |-> "zoomOut", prev |-> viewer.scale])

\* rotate: (prev + 90) % 360
Rotate ==
    ViewerStep([viewer EXCEPT !.rotation = (@ + 90) % 360], currentPage, numPages,
               <<>>, [op |-> "rotate"])

\* goToPrevPage; its button is disabled={currentPage <= 1}
GoToPrevPage ==
    /\ ~(currentPage <= 1)
    /\ ViewerStep(viewer, IF currentPage > 1 THEN currentPage - 1 ELSE currentPage,
                  numPages, <<>>, [op |-> "goToPrevPage"])

\* goToNextPage; its button is disabled={currentPage >= numPages}
GoToNextPage ==
    /\ ~(currentPage >= numPages)
    /\ ViewerStep(viewer, IF currentPage < numPages THEN currentPage + 1 ELSE currentPage,
                  numPages, <<>>, [op |-> "goToNextPage"])

\* handlePageInputChange, page = parseInt(e.target.value)
HandlePageInputChange(page) ==
    ViewerStep(viewer, IF page >= 1 /\ page <= numPages THEN page ELSE currentPage,
               numPages, <<>>, [op |-> "handlePageInputChange", page |-> page])

\* handleDocumentLoadSuccess: the Document is rendered while the preview
\* is not being loaded.
HandleDocumentLoadSuccess(n) ==
    /\ ~viewer.isLoadingPreview
    /\ ViewerStep([viewer EXCEPT !.loading = FALSE], currentPage, n,
                  <<Toast("PDF loaded successfully", "Document has pages.", "default")>>,
                  [op |-> "handleDocumentLoadSuccess", numPages |-> n])

\* The mutant of HandleDocumentLoadError: the loading flag is left as it is.
HandleDocumentLoadErrorKeepsLoading ==
    /\ ~viewer.isLoadingPreview
    /\ ViewerStep(viewer, currentPage, numPages,
                  <<Toast("Error loading PDF",
                          "Failed to load the PDF document. Please try again.",
                          "destructive")>>,
                  [op |-> "handleDocumentLoadError"])

\* handleDocumentLoadError
HandleDocumentLoadError ==
    /\ ~viewer.isLoadingPreview
    /\ ViewerStep([viewer EXCEPT !.loading = FALSE], currentPage, numPages,
                  <<Toast("Error loading PDF",
                          "Failed to load the PDF document. Please try again.",
                          "destructive")>>,
                  [op |-> "handleDocumentLoadError"])

----------------------------------------------------------------------------
(* PDFEditPanel: the edit panel.                                           *)

\* Number of entries in the two edit lists together at most.
MaxEdits == 3

\* A handler of the edit panel: ed are the panel's cells after it, file2
\* the handle the container holds after it, n0 the requests in flight.
EditStep(ed, file2, n0, shown, op) ==
    /\ IsMounted("edit", activeTab, pdfFile)
    /\ Commit(activeTab, file2, isUploading, viewer, ed, exportPanel, n0)
    /\ toast' = shown
    /\ download' = NoDownload
    /\ last' = op
    /\ UNCHANGED <<currentPage, numPages, isDeleting, panel, objectUrls, urlCount,
                   input, output>>

\* handleMetadataChange
HandleMetadataChange(field, value) ==
    LET updatedMetadata == Spread(editPanel.metadata, field :> value)
    IN  EditStep([editPanel EXCEPT !.metadata = updatedMetadata],
                 handleMetadataUpdate(updatedMetadata), net, <<>>,
                 [op |-> "handleMetadataChange", field |-> field, value |-> value])

\* The onChange of a field of the overlay form: setNewOverlay({...newOverlay, field}).
SetNewOverlay(field, value) ==
    EditStep([editPanel EXCEPT !.newOverlay = Spread(@, field :> value)], pdfFile, net,
             <<>>, [op |-> "setNewOverlay", field |-> field])

\* The onChange of a field of the replacement form.
SetNewReplacement(field, value) ==
    EditStep([editPanel EXCEPT !.newReplacement = Spread(@, field :> value)], pdfFile,
             net, <<>>, [op |-> "setNewReplacement", field |-> field])

\* addTextOverlay
AddTextOverlay ==
    LET newOverlay == editPanel.newOverlay
        updatedOverlays == Append(pdfFile.edits.textOverlays, newOverlay)
    IN  IF Trim(newOverlay.text) = <<>>
        THEN EditStep(editPanel, pdfFile, net,
                      <<Toast("Missing text", "Please enter text for the overlay.",
                              "destructive")>>,
                      [op |-> "addTextOverlay", added |-> FALSE])
        ELSE /\ Len(pdfFile.edits.textOverlays) + Len(pdfFile.edits.textReplacements) < MaxEdits
             /\ EditStep([editPanel EXCEPT !.newOverlay = DefaultOverlay],
                         handleEditsUpdate(Spread(pdfFile.edits,
                                                  [textOverlays |-> updatedOverlays])),
                         net,
                         <<Toast("Text overlay added",
                                 "The text overlay has been added to your edits.",
                                 "default")>>,
                         [op |-> "addTextOverlay", added |-> TRUE])

\* addTextReplacement
AddTextReplacement ==
    LET newReplacement == editPanel.newReplacement
        updatedReplacements == Append(pdfFile.edits.textReplacements, newReplacement)
    IN  IF Trim(newReplacement.original) = <<>> \/ Trim(newReplacement.replacement) = <<>>
        THEN EditStep(editPanel, pdfFile, net,
                      <<Toast("Missing text",
                              "Please enter both original and replacement text.",
                              "destructive")>>,
                      [op |-> "addTextReplacement", added |-> FALSE])
        ELSE /\ Len(pdfFile.edits.textOverlays) + Len(pdfFile.edits.textReplacements) < MaxEdits
             /\ EditStep([editPanel EXCEPT !.newReplacement = DefaultReplacement],
                         handleEditsUpdate(Spread(pdfFile.edits,
                                                  [textReplacements |-> updatedReplacements])),
                         net,
                         <<Toast("Text replacement added",
                                 "The text replacement has been added to your edits.",
                                 "default")>>,
                         [op |-> "addTextReplacement", added |-> TRUE])

\* The mutant of FilterOut: the entries equal to the one at index go too.
FilterOutEqual(list, index) ==
    SelectSeq(list, LAMBDA e : e # list[index + 1])

\* list.filter((_, i) => i !== index), from position i (from 1) on.
RECURSIVE FilterFrom(_, _, _)
FilterFrom(list, index, i) ==
    IF i > Len(list) THEN <<>>
    ELSE (IF i - 1 # index THEN <<list[i]>> ELSE <<>>) \o FilterFrom(list, index, i + 1)

\* list.filter((_, i) => i !== index)
FilterOut(list, index) == FilterFrom(list, index, 1)

\* removeTextOverlay(index); a Remove button is rendered per entry.
RemoveTextOverlay(index) ==
    /\ index \in 0..(Len(pdfFile.edits.textOverlays) - 1)
    /\ EditStep(editPanel,
                handleEditsUpdate(Spread(pdfFile.edits,
                    [textOverlays |-> FilterOut(pdfFile.edits.textOverlays, index)])),
                net,
                <<Toast("Text overlay removed",
                        "The text overlay has been removed from your edits.", "default")>>,
                [op |-> "removeTextOverlay", index |-> index])

\* removeTextReplacement(index)
RemoveTextReplacement(index) ==
    /\ index \in 0..(Len(pdfFile.edits.textReplacements) - 1)
    /\ EditStep(editPanel,
                handleEditsUpdate(Spread(pdfFile.edits,
                    [textReplacements |-> FilterOut(pdfFile.edits.textReplacements, index)])),
                net,
                <<Toast("Text replacement removed",
                        "The text replacement has been removed from your edits.",
                        "default")>>,
                [op |-> "removeTextReplacement", index |-> index])

\* The factors 0.6 and 1.2 of the box of an overlay.
WidthFactor == Literal(6, 10)
HeightFactor == Literal(12, 10)

\* The mutant of overlayToEdit: the box is sized by the font size alone.
overlayToEditNoLength(overlay) ==
    [pageNumber |-> overlay.page,
     x |-> overlay.x,
     y |-> overlay.y,
     width |-> NumMulInt(overlay.fontSize, WidthFactor),
     height |-> NumMulInt(overlay.fontSize, HeightFactor),
     text |-> overlay.text,
     action |-> "add_text"]

\* The map callback of saveEditsToBackend over file.edits.textOverlays.
overlayToEdit(overlay) ==
    [pageNumber |-> overlay.page,
     x |-> overlay.x,
     y |-> overlay.y,
     width |-> NumMulInt(Len(overlay.text) * overlay.fontSize, WidthFactor),
     height |-> NumMulInt(overlay.fontSize, HeightFactor),
     text |-> overlay.text,
     action |-> "add_text"]

\* The mutant of replacementToEdit: the entry carries the text to find.
replacementToEditOriginal(replacement) ==
    [pageNumber |-> replacement.page,
     x |-> 0,
     y |-> 0,
     width |-> IntToBits(0),
     height |-> IntToBits(0),
     text |-> replacement.original,
     action |-> "add_text"]

\* The map callback of saveEditsToBackend over file.edits.textReplacements.
replacementToEdit(replacement) ==
    [pageNumber |-> replacement.page,
     x |-> 0,
     y |-> 0,
     width |-> IntToBits(0),
     height |-> IntToBits(0),
     text |-> replacement.replacement,
     action |-> "add_text"]

\* list.map(f)
RECURSIVE MapOverlays(_)
MapOverlays(list) ==
    IF list = <<>> THEN <<>> ELSE <<overlayToEdit(Head(list))>> \o MapOverlays(Tail(list))

RECURSIVE MapReplacements(_)
MapReplacements(list) ==
    IF list = <<>> THEN <<>>
    ELSE <<replacementToEdit(Head(list))>> \o MapReplacements(Tail(list))

\* The mutant of allEdits: the replacements' entries first.
allEditsReplacementsFirst(file) ==
    MapReplacements(file.edits.textReplacements) \o MapOverlays(file.edits.textOverlays)

\* allEdits of saveEditsToBackend
allEdits(file) ==
    MapOverlays(file.edits.textOverlays) \o MapReplacements(file.edits.textReplacements)

\* saveEditsToBackend, up to the await; the Save Edits button is
\* disabled={isSaving || !file.fileId}.
SaveEditsToBackend ==
    /\ ~(editPanel.isSaving \/ ~Truthy(FileIdOf(pdfFile)))
    /\ IF ~Truthy(pdfFile.fileId)
       THEN EditStep(editPanel, pdfFile, net,
                     <<Toast("No file ID",
                             "Cannot save edits without a file ID. Please re-upload the file.",
                             "destructive")>>,
                     [op |-> "saveEditsToBackend", sent |-> FALSE])
       ELSE IF Len(allEdits(pdfFile)) = 0
       THEN EditStep([editPanel EXCEPT !.isSaving = FALSE], pdfFile, net,
                     <<Toast("No edits to save",
                             "Please add some text overlays or replacements before saving.",
                             "destructive")>>,
                     [op |-> "saveEditsToBackend", sent |-> FALSE])
       ELSE /\ Cardinality(net) < MaxInFlight
            /\ EditStep([editPanel EXCEPT !.isSaving = TRUE], pdfFile,
                        net \cup {[kind |-> "edit", n |-> FreshN("edit", net),
                                   owner |-> "edit", live |-> TRUE,
                                   fileId |-> pdfFile.fileId,
                                   edits |-> allEdits(pdfFile)]},
                        <<>>,
                        [op |-> "saveEditsToBackend", sent |-> TRUE])

\* The mutant of EditOk: the saved edits are taken off the handle.
EditOkClearsEdits(r) ==
    /\ r \in net
    /\ r.kind = "edit"
    /\ Commit(activeTab, [pdfFile EXCEPT !.edits = NoEdits], isUploading, viewer,
              IF r.live THEN [editPanel EXCEPT !.isSaving = FALSE] ELSE editPanel,
              exportPanel, net \ {r})
    /\ toast' = <<Toast("Edits saved successfully",
                        "Your edits have been saved to the server.", "default")>>
    /\ download' = NoDownload
    /\ last' = [op |-> "editResolved", fileId |-> r.fileId]
    /\ UNCHANGED <<currentPage, numPages, isDeleting, panel, objectUrls, urlCount,
                   input, output>>

\* saveEditsToBackend after pdfApi.edit resolved.
EditOk(r) ==
    /\ r \in net
    /\ r.kind = "edit"
    /\ CommitPanels(isUploading, viewer,
                    IF r.live THEN [editPanel EXCEPT !.isSaving = FALSE] ELSE editPanel,
                    exportPanel, net \ {r})
    /\ toast' = <<Toast("Edits saved successfully",
                        "Your edits have been saved to the server.", "default")>>
    /\ download' = NoDownload
    /\ last' = [op |-> "editResolved", fileId |-> r.fileId]
    /\ UNCHANGED <<currentPage, numPages, isDeleting, panel, objectUrls, urlCount,
                   input, output>>

\* saveEditsToBackend after pdfApi.edit rejected.
EditFail(r, error) ==
    /\ r \in net
    /\ r.kind = "edit"
    /\ CommitPanels(isUploading, viewer,
                    IF r.live THEN [editPanel EXCEPT !.isSaving = FALSE] ELSE editPanel,
                    exportPanel, net \ {r})
    /\ toast' = <<Toast("Save failed", handleApiError(error).message, "destructive")>>
    /\ download' = NoDownload
    /\ last' = [op |-> "editRejected", fileId |-> r.fileId]
    /\ UNCHANGED <<currentPage, numPages, isDeleting, panel, objectUrls, urlCount,
                   input, output>>

----------------------------------------------------------------------------
(* ExportPanel: the export panel.                                          *)

ExportFormats == {"pdf", "docx", "images"}

\* A handler of the export panel.
ExportStep(ex, n0, shown, op) ==
    /\ IsMounted("export", activeTab, pdfFile)
    /\ CommitPanels(isUploading, viewer, editPanel, ex, n0)
    /\ toast' = shown
    /\ download' = NoDownload
    /\ last' = op
    /\ UNCHANGED <<currentPage, numPages, isDeleting, panel, objectUrls, urlCount,
                   input, output>>

\* RadioGroup onValueChange: setSelectedFormat(value)
SelectFormat(format) ==
    /\ format # exportPanel.selectedFormat
    /\ ExportStep([exportPanel EXCEPT !.selectedFormat = format], net, <<>>,
                  [op |-> "setSelectedFormat", format |-> format])

\* The mutant of exportBody: the handle's metadata is sent along.
exportBodyWithMetadata(selectedFormat) ==
    [format |-> IF selectedFormat = "images" THEN "png" ELSE selectedFormat,
     quality |-> "high",
     metadata |-> pdfFile.metadata]

\* The body of the export request.
exportBody(selectedFormat) ==
    [format |-> IF selectedFormat = "images" THEN "png" ELSE selectedFormat,
     quality |-> "high"]

\* handleExport, up to the await: the button is disabled={isExporting}
\* and calls handleExport unless exportComplete.  The request carries what
\* its continuation closes over, and the progress interval it started.
HandleExport ==
    /\ ~exportPanel.isExporting
    /\ ~exportPanel.exportComplete
    /\ IF ~Truthy(FileIdOf(pdfFile))
       THEN ExportStep(exportPanel, net,
                       <<Toast("No file ID",
                               "Cannot export without a file ID. Please re-upload the file.",
                               "destructive")>>,
                       [op |-> "handleExport", sent |-> FALSE])
       ELSE /\ Cardinality(net) < MaxInFlight
            /\ ExportStep([exportPanel EXCEPT !.isExporting = TRUE,
                                              !.exportProgress = 0,
                                              !.exportComplete = FALSE],
                          net \cup {[kind |-> "export", n |-> FreshN("export", net),
                                     owner |-> "export", live |-> TRUE,
                                     fileId |-> pdfFile.fileId,
                                     body |-> exportBody(exportPanel.selectedFormat),
                                     fileName |-> pdfFile.file.name,
                                     selectedFormat |-> exportPanel.selectedFormat,
                                     timer |-> TRUE]},
                          <<>>,
                          [op |-> "handleExport", sent |-> TRUE])

\* resetExport: what the button calls while exportComplete.
ResetExport ==
    /\ ~exportPanel.isExporting
    /\ exportPanel.exportComplete
    /\ ExportStep([exportPanel EXCEPT !.exportComplete = FALSE, !.exportProgress = 0],
                  net, <<>>, [op |-> "resetExport"])

\* The mutant of ExportTick: the interval adds 10 without a cap.
ExportTickUncapped(r) ==
    /\ r \in net
    /\ r.kind = "export"
    /\ r.timer
    /\ r.live
    /\ CommitPanels(isUploading, viewer, editPanel,
                    [exportPanel EXCEPT !.exportProgress = @ + 10], net)
    /\ toast' = <<>>
    /\ download' = NoDownload
    /\ last' = [op |-> "progressInterval"]
    /\ UNCHANGED <<currentPage, numPages, isDeleting, panel, objectUrls, urlCount,
                   input, output>>

\* A tick of the progress interval of a pending export, every 200 ms.
\* The updater runs on the panel that started it, while that is mounted.
ExportTick(r) ==
    /\ r \in net
    /\ r.kind = "export"
    /\ r.timer
    /\ r.live
    /\ IF exportPanel.exportProgress >= 90
       THEN CommitPanels(isUploading, viewer, editPanel,
                         [exportPanel EXCEPT !.exportProgress = 90],
                         (net \ {r}) \cup {[r EXCEPT !.timer = FALSE]})
       ELSE CommitPanels(isUploading, viewer, editPanel,
                         [exportPanel EXCEPT !.exportProgress = @ + 10], net)
    /\ toast' = <<>>
    /\ download' = NoDownload
    /\ last' = [op |-> "progressInterval"]
    /\ UNCHANGED <<currentPage, numPages, isDeleting, panel, objectUrls, urlCount,
                   input, output>>

\* The mutant of downloadOf: no link is clicked.
downloadNone(r) == NoDownload

\* The link handleExport clicks: its download attribute is the file's name
\* and the extension, "zip" for images.
downloadOf(r) ==
    [file |-> r.fileName,
     extension |-> IF r.selectedFormat = "images" THEN "zip" ELSE r.selectedFormat]

\* handleExport after api.post resolved: the interval is cleared, the
\* progress completed, the blob downloaded through a link, and isExporting reset.
ExportOk(r) ==
    /\ r \in net
    /\ r.kind = "export"
    /\ CommitPanels(isUploading, viewer, editPanel,
                    IF r.live
                    THEN [exportPanel EXCEPT !.exportProgress = 100,
                                             !.exportComplete = TRUE,
                                             !.isExporting = FALSE]
                    ELSE exportPanel,
                    net \ {r})
    /\ toast' = <<Toast("Export successful", r.selectedFormat, "default")>>
    /\ download' = downloadOf(r)
    /\ last' = [op |-> "exportResolved", fileId |-> r.fileId, live |-> r.live]
    /\ UNCHANGED <<currentPage, numPages, isDeleting, panel, objectUrls, urlCount,
                   input, output>>

\* handleExport after api.post rejected.
ExportFail(r, error) ==
    /\ r \in net
    /\ r.kind = "export"
    /\ CommitPanels(isUploading, viewer, editPanel,
                    IF r.live THEN [exportPanel EXCEPT !.isExporting = FALSE]
                    ELSE exportPanel,
                    net \ {r})
    /\ toast' = <<Toast("Export failed",
                        OrElse(handleApiError(error).message,
                               "An unexpected error occurred during export"),
                        "destructive")>>
    /\ download' = NoDownload
    /\ last' = [op |-> "exportRejected", fileId |-> r.fileId]
    /\ UNCHANGED <<currentPage, numPages, isDeleting, panel, objectUrls, urlCount,
                   input, output>>

----------------------------------------------------------------------------
(* The application: one container, mounted with no file.                   *)

\* No pure function is under check.
NoInput == [op |-> "none"]

\* The container right after its first render.
Init ==
    /\ pdfFile = NoHandle
    /\ activeTab = "upload"
    /\ currentPage = 1
    /\ numPages = 0
    /\ isDeleting = FALSE
    /\ panel \in {"api", "local"}
    /\ isUploading = FALSE
    /\ viewer = InitViewer
    /\ editPanel = InitEdit(NoHandle)
    /\ exportPanel = InitExport
    /\ net = {}
    /\ objectUrls = {}
    /\ urlCount = 0
    /\ previewSent = NoneSent
    /\ toast = <<>>
    /\ download = NoDownload
    /\ last = [op |-> "mount"]
    /\ input = NoInput
    /\ output = NoInput

\* The text typed into the overlay form.
Confidential == <<"C", "o", "n", "f", "i", "d", "e", "n", "t", "i", "a", "l">>

\* The page counts a loaded document reports.
PageCounts == {1, 3}

Next ==
    \/ \E t \in Tabs : SelectTab(t)
    \/ \E d \in Drops : OnDrop(d)
    \/ \E d \in Drops : OnDropLocal(d)
    \/ \E r \in net, f \in FileIds : UploadOk(r, f)
    \/ \E r \in net, e \in Failures : UploadFail(r, e)
    \/ \E r \in net, u \in PreviewUrls : PreviewOk(r, u)
    \/ \E r \in net, e \in Failures : PreviewFail(r, e)
    \/ HandleDeleteFile
    \/ \E r \in net : DeleteOk(r)
    \/ \E r \in net, e \in Failures : DeleteFail(r, e)
    \/ SetNewOverlay("text", Confidential)
    \/ AddTextOverlay
    \/ SaveEditsToBackend
    \/ \E r \in net : EditOk(r)
    \/ \E r \in net, e \in Failures : EditFail(r, e)
    \/ HandleExport
    \/ ResetExport
    \/ \E r \in net : ExportOk(r)
    \/ \E r \in net, e \in Failures : ExportFail(r, e)

Spec == Init /\ [][Next]_vars

\* A pending request of a kind is answered: it succeeds, or it fails with
\* an error response or by the timeout of the HTTP client.
Settle(kind) ==
    \E r \in net :
        /\ r.kind = kind
        /\ \/ \E f \in FileIds : UploadOk(r, f)
           \/ \E u \in PreviewUrls : PreviewOk(r, u)
           \/ DeleteOk(r)
           \/ EditOk(r)
           \/ ExportOk(r)
           \/ \E e \in Failures :
                 \/ UploadFail(r, e)
                 \/ PreviewFail(r, e)
                 \/ DeleteFail(r, e)
                 \/ EditFail(r, e)
                 \/ ExportFail(r, e)

\* The application with the panel that uploads, the sample the only file
\* dropped and "abc123" the only identifier handed out.
InitLive == Init /\ panel = "api"

NextLive ==
    \/ \E t \in Tabs : SelectTab(t)
    \/ OnDrop(<<Sample>>)
    \/ \E r \in net : UploadOk(r, "abc123")
    \/ \E r \in net, e \in Failures : UploadFail(r, e)
    \/ \E r \in net, u \in PreviewUrls : PreviewOk(r, u)
    \/ \E r \in net, e \in Failures : PreviewFail(r, e)
    \/ HandleDeleteFile
    \/ \E r \in net : DeleteOk(r)
    \/ \E r \in net, e \in Failures : DeleteFail(r, e)
    \/ SetNewOverlay("text", Confidential)
    \/ AddTextOverlay
    \/ SaveEditsToBackend
    \/ \E r \in net : EditOk(r)
    \/ \E r \in net, e \in Failures : EditFail(r, e)
    \/ HandleExport
    \/ ResetExport
    \/ \E r \in net : ExportOk(r)
    \/ \E r \in net, e \in Failures : ExportFail(r, e)

\* Every pending request is answered in the end: a request runs to
\* completion or to the timeout of the HTTP client.
SpecLive ==
    /\ InitLive
    /\ [][NextLive]_vars
    /\ \A kind \in {"upload", "preview", "delete", "edit", "export"} :
          WF_vars(Settle(kind))

----------------------------------------------------------------------------
(* The panels, each from the state the application is in when the panel    *)
(* has been opened on the uploaded sample.                                 *)

\* The handle of the sample after its upload was answered with "abc123".
SampleHandle ==
    [file |-> Sample, url |-> 1, fileId |-> "abc123", metadata |-> EmptyObject,
     edits |-> NoEdits]

\* The container holding the sample, on tab t, nothing in flight.
Opened(t) ==
    /\ pdfFile = SampleHandle
    /\ activeTab = t
    /\ currentPage = 1
    /\ numPages = 0
    /\ isDeleting = FALSE
    /\ panel = "api"
    /\ isUploading = FALSE
    /\ viewer = InitViewer
    /\ editPanel = InitEdit(IF t = "edit" THEN SampleHandle ELSE NoHandle)
    /\ exportPanel = InitExport
    /\ net = {}
    /\ objectUrls = {1}
    /\ urlCount = 1
    /\ previewSent = NoneSent
    /\ toast = <<>>
    /\ download = NoDownload
    /\ last = [op |-> "setActiveTab", tab |-> t]
    /\ input = NoInput
    /\ output = NoInput

\* The preview panel right after the upload was answered: mounted, its
\* effect run once.
InitPreview ==
    /\ pdfFile = SampleHandle
    /\ activeTab = "preview"
    /\ currentPage = 1
    /\ numPages = 0
    /\ isDeleting = FALSE
    /\ panel = "api"
    /\ isUploading = FALSE
    /\ viewer = [InitViewer EXCEPT !.deps = <<"abc123", Null>>,
                                   !.isLoadingPreview = TRUE]
    /\ editPanel = InitEdit(NoHandle)
    /\ exportPanel = InitExport
    /\ net = {PreviewRequest("abc123", {})}
    /\ objectUrls = {1}
    /\ urlCount = 1
    /\ previewSent = [NoneSent EXCEPT !["abc123"] = 1]
    /\ toast = <<Toast("File uploaded successfully", "sample.pdf", "default")>>
    /\ download = NoDownload
    /\ last = [op |-> "uploadResolved", file |-> Sample, fileId |-> "abc123"]
    /\ input = NoInput
    /\ output = NoInput

\* The page numbers typed into the page field.
PageInputs == 0..4

NextViewer ==
    \/ \E r \in net, u \in PreviewUrls : PreviewOk(r, u)
    \/ \E r \in net, e \in Failures : PreviewFail(r, e)
    \/ ZoomIn
    \/ ZoomOut
    \/ Rotate
    \/ GoToPrevPage
    \/ GoToNextPage
    \/ \E p \in PageInputs : HandlePageInputChange(p)
    \/ \E n \in PageCounts : HandleDocumentLoadSuccess(n)
    \/ HandleDocumentLoadError

SpecViewer == InitPreview /\ [][NextViewer]_vars

InitEditing == Opened("edit")

\* What is typed into the forms of the edit panel.
OverlayTexts == {Confidential, <<" ">>}
FontSizes == {10}
Originals == {<<"a">>}
Replacements == {<<"b">>}

NextEdit ==
    \/ HandleMetadataChange("title", "Report")
    \/ \E t \in OverlayTexts : SetNewOverlay("text", t)
    \/ \E n \in FontSizes : SetNewOverlay("fontSize", n)
    \/ \E t \in Originals : SetNewReplacement("original", t)
    \/ \E t \in Replacements : SetNewReplacement("replacement", t)
    \/ AddTextOverlay
    \/ AddTextReplacement
    \/ \E i \in 0..(MaxEdits - 1) : RemoveTextOverlay(i)
    \/ \E i \in 0..(MaxEdits - 1) : RemoveTextReplacement(i)
    \/ SaveEditsToBackend
    \/ \E r \in net : EditOk(r)
    \/ \E r \in net, e \in Failures : EditFail(r, e)

SpecEdit == InitEditing /\ [][NextEdit]_vars

\* The two entry forms of the edit panel alone: what is typed into their
\* text fields, a text or white space only, and the page number chosen.
FormTexts == {Confidential, <<" ", "\t">>}
FormOriginals == {<<"a">>, <<" ">>}
FormReplacements == {<<"b">>, <<"\n">>}
FormPages == {2}

NextForms ==
    \/ \E t \in FormTexts : SetNewOverlay("text", t)
    \/ \E n \in FormPages : SetNewOverlay("page", n)
    \/ \E t \in FormOriginals : SetNewReplacement("original", t)
    \/ \E t \in FormReplacements : SetNewReplacement("replacement", t)
    \/ \E n \in FormPages : SetNewReplacement("page", n)
    \/ AddTextOverlay
    \/ AddTextReplacement

SpecForms == InitEditing /\ [][NextForms]_vars

\* The upload panel that uploads, handed files at and around the ceiling
\* of validateFile: a PDF of exactly 10 MB, and a file that is both of
\* another type and above the ceiling.
LimitFiles ==
    Files \cup { File("limit.pdf", PdfMime, maxSize),
                 File("movie.mp4", "video/mp4", maxSize + 1) }

NextDrop ==
    \/ \E t \in Tabs : SelectTab(t)
    \/ \E f \in LimitFiles : OnDrop(<<f>>)
    \/ \E r \in net, f \in FileIds : UploadOk(r, f)
    \/ \E r \in net, e \in Failures : UploadFail(r, e)
    \/ \E r \in net, u \in PreviewUrls : PreviewOk(r, u)
    \/ \E r \in net, e \in Failures : PreviewFail(r, e)

SpecDrop == InitLive /\ [][NextDrop]_vars

\* The edit panel's updates of the handle: the metadata form with two
\* fields, and the two lists.
MetadataInputs == {<<"title", "Report">>, <<"title", "Draft">>, <<"author", "Ann">>}

NextUpdates ==
    \/ \E m \in MetadataInputs : HandleMetadataChange(m[1], m[2])
    \/ SetNewOverlay("text", Confidential)
    \/ \E t \in Originals : SetNewReplacement("original", t)
    \/ \E t \in Replacements : SetNewReplacement("replacement", t)
    \/ AddTextOverlay
    \/ AddTextReplacement
    \/ \E i \in 0..(MaxEdits - 1) : RemoveTextOverlay(i)
    \/ \E i \in 0..(MaxEdits - 1) : RemoveTextReplacement(i)

SpecUpdates == InitEditing /\ [][NextUpdates]_vars

\* The edit panel and the export panel of one handle whose metadata
\* changes: what saving and exporting send.
NextBodies ==
    \/ \E t \in {"edit", "export"} : SelectTab(t)
    \/ HandleMetadataChange("title", "Report")
    \/ HandleMetadataChange("author", "Ann")
    \/ SetNewOverlay("text", Confidential)
    \/ \E t \in Originals : SetNewReplacement("original", t)
    \/ \E t \in Replacements : SetNewReplacement("replacement", t)
    \/ AddTextOverlay
    \/ AddTextReplacement
    \/ SaveEditsToBackend
    \/ \E r \in net : EditOk(r)
    \/ \E f \in ExportFormats : SelectFormat(f)
    \/ HandleExport
    \/ \E r \in net : ExportOk(r)

SpecBodies == InitEditing /\ [][NextBodies]_vars

\* The container with the upload panel that uploads and the viewer's page
\* navigation.  The page count the rendering library reports belongs to
\* the document: three pages for the file stored as "abc123", one page for
\* any other.
NumPagesOf(file) == IF FileIdOf(file) = "abc123" THEN 3 ELSE 1

NextPages ==
    \/ \E t \in Tabs : SelectTab(t)
    \/ OnDrop(<<Sample>>)
    \/ \E r \in net, f \in FileIds : UploadOk(r, f)
    \/ \E r \in net, u \in PreviewUrls : PreviewOk(r, u)
    \/ \E r \in net, e \in Failures : PreviewFail(r, e)
    \/ HandleDocumentLoadSuccess(NumPagesOf(pdfFile))
    \/ GoToPrevPage
    \/ GoToNextPage
    \/ \E p \in PageInputs : HandlePageInputChange(p)
    \/ HandleDeleteFile
    \/ \E r \in net : DeleteOk(r)
    \/ \E r \in net, e \in Failures : DeleteFail(r, e)

SpecPages == InitLive /\ [][NextPages]_vars

InitExporting == Opened("export")

NextExport ==
    \/ HandleDeleteFile
    \/ \E r \in net : DeleteOk(r)
    \/ \E r \in net, e \in Failures : DeleteFail(r, e)
    \/ \E f \in ExportFormats : SelectFormat(f)
    \/ HandleExport
    \/ ResetExport
    \/ \E r \in net : ExportTick(r)
    \/ \E r \in net : ExportOk(r)
    \/ \E r \in net, e \in Failures : ExportFail(r, e)

SpecExport == InitExporting /\ [][NextExport]_vars

----------------------------------------------------------------------------
(* handleApiError alone, applied to the rejections axios can build.        *)

\* The message of a response body or of an Error: absent, empty or a text.
Messages == {Undefined, "", "File not found"}

\* The status lines of an error response.
Statuses == {<<400, "">>, <<404, "Not Found">>, <<500, "Internal Server Error">>}

ApiErrors ==
    { ApiError(TRUE, TRUE, dm, st[1], st[2], rq, m) :
        dm \in Messages, st \in Statuses, rq \in BOOLEAN, m \in Messages }
    \cup { ApiError(TRUE, FALSE, Undefined, st[1], st[2], rq, m) :
             st \in Statuses, rq \in BOOLEAN, m \in Messages }
    \cup { ApiError(FALSE, FALSE, Undefined, 0, Undefined, rq, m) :
             rq \in BOOLEAN, m \in Messages }

InitApi ==
    /\ pdfFile = NoHandle
    /\ activeTab = "upload"
    /\ currentPage = 1
    /\ numPages = 0
    /\ isDeleting = FALSE
    /\ panel = "api"
    /\ isUploading = FALSE
    /\ viewer = InitViewer
    /\ editPanel = InitEdit(NoHandle)
    /\ exportPanel = InitExport
    /\ net = {}
    /\ objectUrls = {}
    /\ urlCount = 0
    /\ previewSent = NoneSent
    /\ toast = <<>>
    /\ download = NoDownload
    /\ last = [op |-> "mount"]
    /\ input \in ApiErrors
    /\ output = NoInput

\* errorInfo = handleApiError(error)
HandleApiError ==
    /\ output' = handleApiError(input)
    /\ last' = [op |-> "handleApiError"]
    /\ UNCHANGED <<appVars, toast, download, input>>

NextApi == HandleApiError

SpecApi == InitApi /\ [][NextApi]_vars

----------------------------------------------------------------------------
(* The claims.                                                             *)

\* The step was an onDrop of either upload panel, handed a file.
Dropped(op) == op.op \in {"onDrop", "onDropLocal"} /\ op.file # NoFile

\* One notification of the destructive variant.
ErrorShown(shown) == Len(shown) = 1 /\ shown[1].variant = "destructive"

C2_OversizeRejectedEverywhere ==
    /\ \A r \in net : r.kind = "upload" => r.file.size <= maxSize
    /\ pdfFile # NoHandle => pdfFile.file.size <= maxSize

\* C3: no edit, preview, export or delete request is in flight for a file
\* handle without a backend identifier, and save-edits, export and delete
\* called on such a handle dispatch nothing and show one error notification.
C3_NoRequestWithoutFileId ==
    /\ [](\A r \in net :
            r.kind \in {"edit", "preview", "export", "delete"} => r.fileId \in FileIds)
    /\ [][ (/\ last'.op \in {"saveEditsToBackend", "handleExport", "handleDeleteFile"}
            /\ FileIdOf(pdfFile) \notin FileIds)
           => net' = net /\ ErrorShown(toast') ]_vars

\* C3, its case: export was asked for a handle that has no identifier,
\* whose preview panel was opened before.
C3_Witness ==
    /\ pdfFile # NoHandle
    /\ FileIdOf(pdfFile) \notin FileIds
    /\ last.op = "handleExport"
    /\ ErrorShown(toast)
    /\ net = {}

\* C4, as the claim states it: a mounted preview panel whose file handle
\* has identifier F has dispatched exactly one preview request for F,
\* whatever re-renders and responses followed.
C4_OnePreviewRequest ==
    (IsMounted("preview", activeTab, pdfFile) /\ FileIdOf(pdfFile) \in FileIds)
        => previewSent[pdfFile.fileId] = 1

\* The step was a removal of entry index (from 0) that took list old to new.
RemovedExactly(old, new, index) ==
    /\ index \in 0..(Len(old) - 1)
    /\ Len(new) = Len(old) - 1
    /\ new = SubSeq(old, 1, index) \o SubSeq(old, index + 2, Len(old))

\* C5: removeTextOverlay(i) on an overlay list of N entries, 0 <= i < N,
\* leaves the list of length N-1 that is the old one without its i-th entry,
\* the others in their order; removeTextReplacement does the same on the
\* replacement list.
C5_RemoveExactlyIth ==
    [][ /\ last'.op = "removeTextOverlay"
           => RemovedExactly(pdfFile.edits.textOverlays, pdfFile'.edits.textOverlays,
                             last'.index)
        /\ last'.op = "removeTextReplacement"
           => RemovedExactly(pdfFile.edits.textReplacements,
                             pdfFile'.edits.textReplacements, last'.index) ]_vars

\* C5, its case: the middle one of three overlays was removed, and the two
\* that remain differ.
C5_Witness ==
    /\ last.op = "removeTextOverlay"
    /\ last.index = 1
    /\ Len(pdfFile.edits.textOverlays) = 2
    /\ pdfFile.edits.textOverlays[1] # pdfFile.edits.textOverlays[2]

\* C6: whatever zoomIn and zoomOut actions were taken from scale 1.0, the
\* zoom factor is at least 0.5 and at most 3.0.
C6_ZoomBounded ==
    /\ LessEq(Literal(5, 10), viewer.scale)
    /\ LessEq(viewer.scale, IntToBits(3))

\* C6, its case: a zoomIn whose sum went past 3.0 was cut to 3.0.
C6_Witness ==
    /\ last.op = "zoomIn"
    /\ Less(IntToBits(3), NumAdd(last.prev, Literal(2, 10)))
    /\ viewer.scale = IntToBits(3)

\* The request a step has dispatched.
Dispatched(r) == r \in net' /\ r \notin net /\ net' = net \cup {r}

\* The entry an overlay is to be translated into, its box computed in
\* double arithmetic: no colour.
EntryOf(o) ==
    [pageNumber |-> o.page, x |-> o.x, y |-> o.y,
     width |-> NumMulInt(Len(o.text) * o.fontSize, Literal(6, 10)),
     height |-> NumMulInt(o.fontSize, Literal(12, 10)),
     text |-> o.text, action |-> "add_text"]

\* The doubles 86.39999999999999 and 14.399999999999999: one unit in the
\* last place below the doubles 86.4 and 14.4.
BelowWidth == ExactSub(Literal(864, 10), PowerBit(FracBits - 46))
BelowHeight == ExactSub(Literal(144, 10), PowerBit(FracBits - 49))

\* The entries of a dispatched edit request translate the overlays one by
\* one, and "Confidential" at font size 12 gets the box (width, height).
Translated(width, height) ==
    \A r \in net' :
        Dispatched(r) =>
            LET overlays == pdfFile.edits.textOverlays
            IN  /\ r.kind = "edit"
                /\ Len(r.edits) >= Len(overlays)
                /\ \A k \in 1..Len(overlays) :
                      /\ r.edits[k] = EntryOf(overlays[k])
                      /\ "color" \notin DOMAIN r.edits[k]
                      /\ (overlays[k].text = Confidential /\ overlays[k].fontSize = 12)
                         => r.edits[k].width = width /\ r.edits[k].height = height

\* C7, amended: when edits are saved, the k-th overlay {page, x, y, text,
\* fontSize} becomes the k-th request entry with pageNumber = page, x, y,
\* text, action "add_text", width = (length of text) * fontSize * 0.6 and
\* height = fontSize * 1.2 as double arithmetic computes them, and no
\* colour; for "Confidential" at 12 these are 86.39999999999999 and
\* 14.399999999999999, not the doubles 86.4 and 14.4.
C7_OverlayTranslated ==
    [][ last'.op = "saveEditsToBackend" => Translated(BelowWidth, BelowHeight) ]_vars

\* C7, its case: a request is in flight whose first entry is
\* "Confidential" at 12 and whose second entry is an overlay at font size 10.
C7_Witness ==
    /\ last.op = "saveEditsToBackend"
    /\ \E r \in net :
          /\ r.kind = "edit"
          /\ Len(pdfFile.edits.textOverlays) >= 2
          /\ r.edits[1].text = Confidential
          /\ r.edits[1].width = BelowWidth
          /\ r.edits[1].height = BelowHeight
          /\ r.edits[2].height = IntToBits(12)

\* C7, as the claim states it: the box of "Confidential" at 12 is width
\* 86.4 and height 14.4.
C7_ExactBox ==
    [][ last'.op = "saveEditsToBackend"
        => Translated(Literal(864, 10), Literal(144, 10)) ]_vars

\* The handle is as the upload left it: no edits, no metadata.
Untouched(file) ==
    /\ file.edits.textOverlays = <<>>
    /\ file.edits.textReplacements = <<>>
    /\ file.metadata = EmptyObject

\* Triggering export on an untouched handle with an identifier dispatches
\* exactly one request, an export request for the identifier.
ExportDispatched ==
    (/\ last'.op = "handleExport"
     /\ FileIdOf(pdfFile) \in FileIds
     /\ Untouched(pdfFile))
    => \E r \in net' : Dispatched(r) /\ r.kind = "export" /\ r.fileId = pdfFile.fileId

C9_UploadSuccess ==
    [][ last'.op = "uploadResolved"
        => /\ \E r \in net : r \notin net' /\ r.kind = "upload" /\ pdfFile'.file = r.file
           /\ validateFile(pdfFile'.file).isValid
           /\ pdfFile'.fileId = last'.fileId
           /\ pdfFile'.metadata = EmptyObject
           /\ pdfFile'.edits.textOverlays = <<>>
           /\ pdfFile'.edits.textReplacements = <<>>
           /\ activeTab' = "preview" ]_vars

\* C9, its case: a second upload has succeeded, from another tab than Upload.
C9_Witness ==
    /\ last.op = "uploadResolved"
    /\ urlCount = 2
    /\ pdfFile.fileId = last.fileId
    /\ Untouched(pdfFile)
    /\ activeTab = "preview"

\* C10: handleApiError gives, for an error with a response, the server's
\* message or "An error occurred" with the response's status and statusText;
\* else, for an error with a request, the network error with status 0 and
\* "No Response"; else the error's own message or "An unexpected error
\* occurred" with status 0 and "Unknown Error".
C10_ThreeCases ==
    last.op = "handleApiError" =>
        LET some(m) == m # Undefined /\ m # ""
            served == input.response.data.present /\ some(input.response.data.message)
        IN  IF input.response.present
            THEN output = [message |-> IF served THEN input.response.data.message
                                       ELSE "An error occurred",
                           status |-> input.response.status,
                           statusText |-> input.response.statusText]
            ELSE IF input.request
            THEN output = [message |-> "Network error - please check your connection",
                           status |-> 0, statusText |-> "No Response"]
            ELSE output = [message |-> IF some(input.message) THEN input.message
                                       ELSE "An unexpected error occurred",
                           status |-> 0, statusText |-> "Unknown Error"]

\* C10, its case: an error that has both a response and a request was
\* mapped by its response.
C10_Witness ==
    /\ last.op = "handleApiError"
    /\ input.response.present
    /\ input.request
    /\ output.status = 404
    /\ output.message = "File not found"

\* The requests of an action that are in flight.
InFlight(kind) == {r \in net : r.kind = kind}

\* C11, as the claim states it: of each of the upload, save-edits, export
\* and delete actions at most one request is in flight at any time.
C11_OneInFlightPerAction ==
    \A kind \in {"upload", "edit", "export", "delete"} : Cardinality(InFlight(kind)) <= 1

\* C12: whenever the active tab is "preview", "edit" or "export" the
\* container holds a file handle; with no file handle the active tab is
\* "upload".
C12_FileTabsNeedFile ==
    /\ activeTab \in {"preview", "edit", "export"} => pdfFile # NoHandle
    /\ pdfFile = NoHandle => activeTab = "upload"

\* C12, its case: the file was deleted while another tab than Upload was
\* open, and the container is back on the Upload tab without a handle.
C12_Witness ==
    /\ last.op = "deleteResolved"
    /\ pdfFile = NoHandle
    /\ activeTab = "upload"
    /\ viewer = InitViewer

\* C13, as the claim states it: the object URL of a handle is revoked when
\* the handle is deleted or replaced, so the only object URL that can be
\* unrevoked is the one of the handle the container holds.
C13_OnlyCurrentUrl ==
    objectUrls \subseteq (IF pdfFile = NoHandle THEN {} ELSE {pdfFile.url})

\* C14: every pending request being answered in the end, each busy flag
\* that is set (isUploading, isSaving, isExporting, isDeleting,
\* isLoadingPreview) is cleared again later, whether the request succeeds
\* or fails.
C14_BusyFlagsClear ==
    /\ isUploading ~> ~isUploading
    /\ editPanel.isSaving ~> ~editPanel.isSaving
    /\ exportPanel.isExporting ~> ~exportPanel.isExporting
    /\ isDeleting ~> ~isDeleting
    /\ viewer.isLoadingPreview ~> ~viewer.isLoadingPreview

\* C14, its case: a delete request was rejected, the file is still there
\* and Delete File can be clicked again.
C14_Witness ==
    /\ last.op = "deleteRejected"
    /\ pdfFile # NoHandle
    /\ ~isDeleting

\* C15, as the claim states it: no two requests that concern the file
\* handle (upload, preview, save-edits, export, delete) are in flight at
\* the same time.
C15_OneRequestAtATime ==
    Cardinality(net) <= 1

\* The entry a replacement is to be translated into: no geometry.
ReplacementEntry(p) ==
    [pageNumber |-> p.page, x |-> 0, y |-> 0, width |-> IntToBits(0),
     height |-> IntToBits(0), text |-> p.replacement, action |-> "add_text"]

\* C16: when edits are saved, the k-th replacement {page, original,
\* replacement} becomes one request entry, after the entries of the
\* overlays, with pageNumber = page, x = y = width = height = 0, text =
\* replacement and action "add_text"; the entry has no field for the
\* original text.
C16_ReplacementTranslated ==
    [][ last'.op = "saveEditsToBackend"
        => \A r \in net' :
              Dispatched(r) =>
                  LET overlays == pdfFile.edits.textOverlays
                      replacements == pdfFile.edits.textReplacements
                  IN  /\ r.kind = "edit"
                      /\ Len(r.edits) = Len(overlays) + Len(replacements)
                      /\ \A k \in 1..Len(replacements) :
                            /\ r.edits[Len(overlays) + k] = ReplacementEntry(replacements[k])
                            /\ DOMAIN r.edits[Len(overlays) + k]
                                  = {"pageNumber", "x", "y", "width", "height", "text",
                                     "action"} ]_vars

\* C16, its case: a request is in flight whose entries are one overlay and
\* then one replacement of "a" by "b", sent as the text "b".
C16_Witness ==
    /\ last.op = "saveEditsToBackend"
    /\ Len(pdfFile.edits.textOverlays) = 1
    /\ Len(pdfFile.edits.textReplacements) >= 1
    /\ pdfFile.edits.textReplacements[1].original = <<"a">>
    /\ \E r \in net :
          /\ r.kind = "edit"
          /\ Len(r.edits) >= 2
          /\ r.edits[2].text = <<"b">>
          /\ r.edits[2].width = IntToBits(0)

\* The export request of the export panel that is mounted is in flight.
ExportPending == \E r \in net : r.kind = "export" /\ r.live

\* C17: while the export request of the panel is in flight its progress
\* value is a multiple of 10 from 0 to 90; a tick of the interval adds 10
\* below 90 and leaves 90 as it is; the value becomes 100 only by a
\* successful response; and exportComplete holds only where the value is 100.
C17_ProgressSimulated ==
    /\ [](ExportPending => exportPanel.exportProgress \in {10 * k : k \in 0..9})
    /\ [](exportPanel.exportComplete => exportPanel.exportProgress = 100)
    /\ [][ /\ last'.op = "progressInterval"
              => exportPanel'.exportProgress
                    = IF exportPanel.exportProgress + 10 <= 90
                      THEN exportPanel.exportProgress + 10 ELSE 90
           /\ (exportPanel'.exportProgress = 100 /\ exportPanel.exportProgress # 100)
              => last'.op = "exportResolved" ]_vars

\* C17, its case: the interval has ticked at 90 while the request is still
\* pending, and the value stayed 90.
C17_Witness ==
    /\ last.op = "progressInterval"
    /\ exportPanel.exportProgress = 90
    /\ \E r \in net : r.kind = "export" /\ r.live /\ ~r.timer

\* The text is empty or white space only.
Blank(t) == \A i \in 1..Len(t) : t[i] \in {" ", "\t", "\n"}

\* C18: addTextOverlay with an empty or white-space-only text, and
\* addTextReplacement with an empty or white-space-only original or
\* replacement text, leave both edit lists as they are and show an error;
\* otherwise the form's entry becomes the last element of its own list, the
\* entries before it and the other list stay as they are, and the form is
\* reset to its defaults.
C18_AddChecked ==
    [][ /\ last'.op = "addTextOverlay"
           => IF Blank(editPanel.newOverlay.text)
              THEN /\ pdfFile'.edits = pdfFile.edits
                   /\ ErrorShown(toast')
              ELSE /\ pdfFile'.edits.textOverlays
                         = pdfFile.edits.textOverlays \o <<editPanel.newOverlay>>
                   /\ pdfFile'.edits.textReplacements = pdfFile.edits.textReplacements
                   /\ editPanel'.newOverlay = DefaultOverlay
        /\ last'.op = "addTextReplacement"
           => IF \/ Blank(editPanel.newReplacement.original)
                 \/ Blank(editPanel.newReplacement.replacement)
              THEN /\ pdfFile'.edits = pdfFile.edits
                   /\ ErrorShown(toast')
              ELSE /\ pdfFile'.edits.textReplacements
                         = pdfFile.edits.textReplacements \o <<editPanel.newReplacement>>
                   /\ pdfFile'.edits.textOverlays = pdfFile.edits.textOverlays
                   /\ editPanel'.newReplacement = DefaultReplacement ]_vars

\* C18, its case: with entries in both lists, a replacement whose
\* replacement text is white space only has been turned down.
C18_Witness ==
    /\ last.op = "addTextReplacement"
    /\ ~last.added
    /\ editPanel.newReplacement.original = <<"a">>
    /\ editPanel.newReplacement.replacement = <<"\n">>
    /\ Len(pdfFile.edits.textOverlays) >= 1
    /\ Len(pdfFile.edits.textReplacements) >= 1
    /\ pdfFile.edits.textOverlays[1].page = 2
    /\ ErrorShown(toast)

Tolerance == PowerBit(FracBits - 40)

\* |a - b|
Distance(a, b) == IF Less(a, b) THEN ExactSub(b, a) ELSE ExactSub(a, b)

\* a and b differ by rounding error at most.
Near(a, b) == LessEq(Distance(a, b), Tolerance)

\* The doubles 0.5, 0.6, ..., 3.0, and those of them of the form 1.0 + 0.2*k.
Tenths == {Literal(k, 10) : k \in 5..30}
EvenTenths == {Literal(10 + 2 * k, 10) : k \in (-2)..10}

\* C20, amended: a zoomIn or zoomOut changes the scale by 0.2 up to
\* rounding error, unless the step would pass a bound, and then it ends at
\* the bound (3.0 or 0.5) and is shorter than 0.2; every reachable scale is,
\* up to rounding error, one of 0.5, 0.6, ..., 3.0; and a zoomIn that is not
\* clamped followed by a zoomOut returns exactly to the starting scale.
C20_ZoomSteps ==
    /\ [](\E g \in Tenths : Near(viewer.scale, g))
    /\ [](LessEq(ExactAdd(viewer.scale, Literal(2, 10)), IntToBits(3))
            => zoomOut(zoomIn(viewer.scale)) = viewer.scale)
    /\ [][ /\ last'.op = "zoomIn"
              => IF Less(IntToBits(3), ExactAdd(viewer.scale, Literal(2, 10)))
                 THEN viewer'.scale = IntToBits(3)
                 ELSE Near(viewer'.scale, ExactAdd(viewer.scale, Literal(2, 10)))
           /\ last'.op = "zoomOut"
              => IF Less(viewer.scale, ExactAdd(Literal(5, 10), Literal(2, 10)))
                 THEN viewer'.scale = Literal(5, 10)
                 ELSE Near(viewer'.scale, ExactSub(viewer.scale, Literal(2, 10))) ]_vars

\* C20, its case: a zoomOut from a scale between 0.5 and 0.7 was cut to
\* 0.5, a step shorter than 0.2.
C20_Witness ==
    /\ last.op = "zoomOut"
    /\ Less(Literal(5, 10), last.prev)
    /\ Less(last.prev, Literal(7, 10))
    /\ viewer.scale = Literal(5, 10)

\* C20, as the claim states it: every reachable scale has the form
\* 1.0 + 0.2*k for an integer k, rounding error allowed for.
C20_EvenGrid ==
    \E g \in EvenTenths : Near(viewer.scale, g)

\* C21: the panel that uploads dispatches an upload request for a dropped
\* file exactly if the file's type is "application/pdf" and its size is at
\* most 10 * 1024 * 1024 bytes, so a PDF of exactly that size is uploaded;
\* a file of another type is reported as a wrong type also when it is too
\* large, a PDF that is too large as too large.
C21_UploadIffValid ==
    [][ (last'.op = "onDrop" /\ last'.file # NoFile)
        => LET file == last'.file
               valid == file.type = "application/pdf" /\ file.size <= 10 * 1024 * 1024
           IN  /\ valid <=> \E r \in net' :
                               Dispatched(r) /\ r.kind = "upload" /\ r.file = file
               /\ ~valid => net' = net /\ ErrorShown(toast')
               /\ file.type # "application/pdf"
                  => toast'[1].description = "Please select a PDF file"
               /\ (file.type = "application/pdf" /\ file.size > 10 * 1024 * 1024)
                  => toast'[1].description = "File size must be less than 10MB" ]_vars

\* C21, its case: the upload of a PDF of exactly 10 MB is in flight.
C21_Witness ==
    /\ last.op = "onDrop"
    /\ last.file.size = 10 * 1024 * 1024
    /\ \E r \in net : r.kind = "upload" /\ r.file = last.file

\* Two URLs are the same one (object URLs and preview URLs are values of
\* different kinds in this module).
SameUrl(a, b) == ToString(a) = ToString(b)

\* C22: whenever the Document is rendered, its file is the fetched preview
\* URL if this mount of the panel holds a non-empty one, and the handle's
\* object URL otherwise; a handle without fileId is rendered from its
\* object URL, and so is the handle once its preview request has been
\* rejected.
C22_DocumentSource ==
    /\ [] ( DocumentShown
            => LET doc == documentFile(viewer, pdfFile)
               IN  /\ IF viewer.previewUrl \in PreviewUrls \ {""}
                      THEN SameUrl(doc, viewer.previewUrl)
                      ELSE SameUrl(doc, pdfFile.url)
                   /\ FileIdOf(pdfFile) \notin FileIds => SameUrl(doc, pdfFile.url) )
    /\ [][ \A r \in net :
             ( /\ last'.op = "previewRejected" /\ r \notin net' /\ r.live
               /\ r.fileId = FileIdOf(pdfFile) )
             => /\ DocumentShown'
                /\ SameUrl(documentFile(viewer', pdfFile'), pdfFile'.url) ]_vars

\* C23: a successful delete response for a file clears the container's
\* handle only if the handle still has that file's fileId; if another file
\* has been uploaded in the meantime, its handle stays and the active tab
\* is not reset.
C23_DeleteOnlyCurrent ==
    [][ (last'.op = "deleteResolved" /\ FileIdOf(pdfFile) # last'.fileId)
        => pdfFile' = pdfFile /\ activeTab' = activeTab ]_vars

\* C24: in every state in which a document with at least one page is
\* loaded, 1 <= currentPage <= numPages, also after the handle has been
\* replaced by an uploaded document with another page count.
C24_PageInRange ==
    (pdfFile # NoHandle /\ numPages >= 1)
    => (1 <= currentPage /\ currentPage <= numPages)

\* C25: when the delete request succeeds, the object URL of the handle
\* Delete was clicked on is revoked, the handle is null, the tab is
\* "upload", currentPage is 1 and numPages is 0; when it fails, the
\* handle, the tab, currentPage, numPages and the object URLs are as they
\* were and an error is shown; isDeleting is false after both.
C25_DeleteOutcomes ==
    [][ \A r \in net :
          (r.kind = "delete" /\ r \notin net')
          => /\ ~isDeleting'
             /\ last'.op \in {"deleteResolved", "deleteRejected"}
             /\ last'.op = "deleteResolved"
                => /\ r.url \in objectUrls /\ r.url \notin objectUrls'
                   /\ pdfFile' = NoHandle
                   /\ activeTab' = "upload"
                   /\ currentPage' = 1
                   /\ numPages' = 0
             /\ last'.op = "deleteRejected"
                => /\ pdfFile' = pdfFile
                   /\ activeTab' = activeTab
                   /\ currentPage' = currentPage
                   /\ numPages' = numPages
                   /\ objectUrls' = objectUrls
                   /\ ErrorShown(toast') ]_vars

\* C25, its case: the delete of the only handle has succeeded.
C25_Witness ==
    /\ last.op = "deleteResolved"
    /\ pdfFile = NoHandle
    /\ activeTab = "upload"
    /\ currentPage = 1 /\ numPages = 0
    /\ ~isDeleting
    /\ urlCount = 1 /\ objectUrls = {}

\* C26: when an upload request fails, the container's handle (also the one
\* of an earlier upload, with its edits and metadata) and the active tab
\* are as they were, handleFileUpload has not run (no object URL is
\* created), and the step only removes the request, shows the "Upload
\* failed" notification and sets isUploading of the panel that sent the
\* request to false.
C26_UploadFailureFrame ==
    [][ \A r \in net :
          (last'.op = "uploadRejected" /\ r \notin net')
          => /\ r.kind = "upload" /\ net' = net \ {r}
             /\ pdfFile' = pdfFile
             /\ activeTab' = activeTab
             /\ urlCount' = urlCount /\ objectUrls' = objectUrls
             /\ ErrorShown(toast') /\ toast'[1].title = "Upload failed"
             /\ isUploading' = IF r.live THEN FALSE ELSE isUploading
             /\ UNCHANGED <<currentPage, numPages, isDeleting, viewer, editPanel,
                            exportPanel, previewSent, panel>> ]_vars

\* C26, its case: the upload that failed found a handle with an overlay,
\* and the handle is still there.
C26_Witness ==
    /\ last.op = "uploadRejected"
    /\ activeTab = "upload" /\ ~isUploading
    /\ pdfFile # NoHandle
    /\ Len(pdfFile.edits.textOverlays) >= 1
    /\ ErrorShown(toast)

\* C27: the body of the edit request built by saveEditsToBackend has
\* exactly |overlays| + |replacements| entries, first one for each overlay
\* in the order of the overlay list, then one for each replacement in the
\* order of the replacement list; with no overlay and no replacement no
\* request is dispatched.
C27_BodyOrder ==
    [][ last'.op = "saveEditsToBackend"
        => LET o == pdfFile.edits.textOverlays
               p == pdfFile.edits.textReplacements
           IN  IF Len(o) + Len(p) = 0
               THEN net' = net /\ ~last'.sent
               ELSE \E r \in net' :
                      /\ Dispatched(r) /\ r.kind = "edit"
                      /\ Len(r.edits) = Len(o) + Len(p)
                      /\ \A k \in 1..Len(o) :
                            /\ r.edits[k].text = o[k].text
                            /\ r.edits[k].pageNumber = o[k].page
                            /\ r.edits[k].x = o[k].x /\ r.edits[k].y = o[k].y
                      /\ \A k \in 1..Len(p) :
                            /\ r.edits[Len(o) + k].text = p[k].replacement
                            /\ r.edits[Len(o) + k].pageNumber = p[k].page
                            /\ r.edits[Len(o) + k].x = 0 ]_vars

\* C27, its case: a request with three entries is in flight, built from
\* two overlays and one replacement.
C27_Witness ==
    /\ last.op = "saveEditsToBackend" /\ last.sent
    /\ Len(pdfFile.edits.textOverlays) = 2
    /\ Len(pdfFile.edits.textReplacements) = 1
    /\ \E r \in net : r.kind = "edit" /\ Len(r.edits) = 3
                      /\ r.edits[3].text = pdfFile.edits.textReplacements[1].replacement

\* C28: saveEditsToBackend and its two continuations leave the handle, with
\* its overlay list, replacement list and metadata, as it was, and the
\* answer enables saving again; the body of a request is computed from
\* the handle alone, so saving again with the handle unchanged sends the
\* same body.
C28_SaveKeepsHandle ==
    [][ /\ last'.op \in {"saveEditsToBackend", "editResolved", "editRejected"}
           => pdfFile' = pdfFile
        /\ \A r \in net' :
              (Dispatched(r) /\ r.kind = "edit") => r.edits = allEdits(pdfFile')
        /\ \A r \in net :
              (r.kind = "edit" /\ r \notin net')
              => pdfFile' = pdfFile /\ ~editPanel'.isSaving ]_vars

\* C28, its case: a save has been answered with success and the handle
\* still has the overlay and the replacement that were sent.
C28_Witness ==
    /\ last.op = "editResolved"
    /\ ~editPanel.isSaving
    /\ Len(pdfFile.edits.textOverlays) >= 1
    /\ Len(pdfFile.edits.textReplacements) >= 1
    /\ "title" \in DOMAIN pdfFile.metadata

\* Two handles with the same fields that agree on every field but one.
SameExcept(a, b, part) ==
    DOMAIN a = DOMAIN b /\ \A k \in DOMAIN a \ {part} : a[k] = b[k]

\* C29: every update of the container changes the updated part of the
\* handle only.  A metadata change sets the named field, keeps the other
\* metadata fields, and leaves file, url, fileId and both lists as they
\* were; adding or removing an overlay leaves the replacement list,
\* metadata, file, url and fileId as they were; adding or removing a
\* replacement leaves the overlay list, metadata, file, url and fileId as
\* they were.
C29_UpdateFrame ==
    [][ /\ last'.op = "handleMetadataChange"
           => /\ SameExcept(pdfFile, pdfFile', "metadata")
              /\ DOMAIN pdfFile'.metadata = DOMAIN pdfFile.metadata \cup {last'.field}
              /\ pdfFile'.metadata[last'.field] = last'.value
              /\ \A k \in DOMAIN pdfFile.metadata \ {last'.field} :
                    pdfFile'.metadata[k] = pdfFile.metadata[k]
        /\ last'.op \in {"addTextOverlay", "removeTextOverlay"}
           => /\ SameExcept(pdfFile, pdfFile', "edits")
              /\ SameExcept(pdfFile.edits, pdfFile'.edits, "textOverlays")
        /\ last'.op \in {"addTextReplacement", "removeTextReplacement"}
           => /\ SameExcept(pdfFile, pdfFile', "edits")
              /\ SameExcept(pdfFile.edits, pdfFile'.edits, "textReplacements") ]_vars

\* C29, its case: the author has been set on a handle that has a title,
\* an overlay and a replacement.
C29_Witness ==
    /\ last.op = "handleMetadataChange" /\ last.field = "author"
    /\ DOMAIN pdfFile.metadata = {"title", "author"}
    /\ pdfFile.metadata["title"] = "Draft"
    /\ Len(pdfFile.edits.textOverlays) >= 1
    /\ Len(pdfFile.edits.textReplacements) >= 1

\* The handle with an empty metadata record.
WithoutMetadata(file) == [file EXCEPT !.metadata = EmptyObject]

\* The bodies an export request can have: a format and the quality.
ExportBodies == {[format |-> f, quality |-> "high"] : f \in {"pdf", "docx", "png"}}

\* C30: no request carries the handle's metadata.  Whatever the metadata
\* record holds, the edit request dispatched has the handle's fileId and
\* the body the same handle with an empty metadata record gives, and the
\* export request has the handle's fileId and a body of format and quality
\* only, the format being the one selected.
C30_MetadataNotSent ==
    [][ \A r \in net' :
          Dispatched(r)
          => /\ "metadata" \notin DOMAIN r
             /\ r.kind = "edit"
                => /\ r.fileId = pdfFile.fileId
                   /\ r.edits = allEdits(WithoutMetadata(pdfFile))
                   /\ \A k \in 1..Len(r.edits) : "metadata" \notin DOMAIN r.edits[k]
             /\ r.kind = "export"
                => /\ r.fileId = pdfFile.fileId
                   /\ r.body \in ExportBodies
                   /\ r.body.format = IF exportPanel.selectedFormat = "images"
                                      THEN "png" ELSE exportPanel.selectedFormat ]_vars

\* C30, its case: an export request is in flight for a handle with a
\* title and an author.
C30_Witness ==
    /\ last.op = "handleExport"
    /\ DOMAIN pdfFile.metadata = {"title", "author"}
    /\ Len(pdfFile.edits.textOverlays) >= 1
    /\ \E r \in net : r.kind = "export" /\ r.live /\ r.body \in ExportBodies

----------------------------------------------------------------------------
====
